---- MODULE Spec2Model ----
(***************************************************************************)
(* Language context of the design system: the LanguageContext, the         *)
(* LanguageProvider component and the useLanguage hook.                    *)
(*                                                                         *)
(* The component tree has one place outside every provider (position 0)    *)
(* and one slot per provider; slot 2 is nested inside slot 1 and slot 3 is  *)
(* beside slot 1.  A provider is a React function component: its state is  *)
(* what its hooks keep between renders (the useState value, the useState   *)
(* update queue and the useCallback closure); its props are inputs of each *)
(* render.                                                                 *)
(***************************************************************************)
EXTENDS Integers, Sequences, FiniteSets, TLC

VARIABLES
    env,        \* process.env.NODE_ENV, fixed for the life of the bundle
    mounted,    \* mounted[p]: provider p is in the tree
    lang,       \* lang[p]: the useState value of provider p at its last render
    queue,      \* queue[p]: setLangState updates enqueued since the last render
    captured,   \* captured[p]: the onChange the memoised setLang closure holds
    made,       \* made[p]: number of calls of the setLang of slot p's provider
    calls,      \* invocations of onChange callbacks, in order
    warnings,   \* number of console.warn calls
    held,       \* the setLang closure a consumer keeps from an earlier render
    outcome     \* what the last operation returned or threw

vars == <<env, mounted, lang, queue, captured, made, calls, warnings, held, outcome>>

----------------------------------------------------------------------------
(* Bounds of the exploration *)

\* setLang calls in one behaviour: the providers' and the fallback's together
MaxCalls == 2

----------------------------------------------------------------------------
(* Language registry *)

SUPPORTED_LANGUAGES ==
    << [code |-> "en",    name |-> "English"],
       [code |-> "ja",    name |-> "Japanese"],
       [code |-> "zh-tw", name |-> "Traditional Chinese"] >>

Language == { SUPPORTED_LANGUAGES[i].code : i \in DOMAIN SUPPORTED_LANGUAGES }

LANGUAGE_NAMES ==
    [ l \in Language |->
        CASE l = "en"    -> "English"
          [] l = "ja"    -> "Japanese"
          [] l = "zh-tw" -> "Traditional Chinese" ]

\* JavaScript's undefined, where it stands for a string-valued prop or state
Undefined == "undefined"

\* The Language type is erased at run time: setLang receives whatever the
\* caller passes (the hook's own example passes e.target.value, a string).
UnlistedCodes == {"fr"}
RuntimeValues == Language \cup UnlistedCodes

\* onChange props a host may pass: none, a callback that returns, and a
\* callback that throws.
Callbacks == {"notify", "faulty"}
OnChangeProps == {Undefined} \cup Callbacks
Throws(cb) == cb = "faulty"

CallbackFailure == [name |-> "CallbackError", message |-> <<"onChange", "failed">>]
NoError == [name |-> "none", message |-> <<>>]

----------------------------------------------------------------------------
(* Component tree *)

Providers == {1, 2, 3}
Positions == {0} \cup Providers
Parent(p) == IF p = 3 THEN 0 ELSE p - 1

----------------------------------------------------------------------------
(* LanguageContext and LanguageProvider *)

\* Variant: createContext is given an English default value instead of
\* undefined.
LanguageContext_WithDefault ==
    <<[lang    |-> "en",
       setLang |-> [kind |-> "fallback", owner |-> 0, onChange |-> Undefined]]>>

\* createContext(undefined): the default value read when no provider encloses
\* the reader.  A context read is a sequence: empty for undefined, else the
\* one value object.
LanguageContext == <<>>

\* setLang closures: the provider's, which holds its owner's state setter and
\* the onChange it was created with, and the hook's production fallback.
ProviderSetLangFn(p, cb) == [kind |-> "provider", owner |-> p, onChange |-> cb]
FallbackSetLangFn == [kind |-> "fallback", owner |-> 0, onChange |-> Undefined]

\* Variant: the state is initialised to 'en' whatever the prop.
InitialLang_IgnoresProp(defaultLang) == "en"

\* Variant: the defaultLang parameter has no default value.
InitialLang_NoDefault(defaultLang) == defaultLang

\* useState<Language>(defaultLang) with the parameter default defaultLang = 'en'
InitialLang(defaultLang) ==
    IF defaultLang = Undefined THEN "en" ELSE defaultLang

\* Variant: a render applies only the first enqueued update.
Reduce_First(state, updates) ==
    IF updates = <<>> THEN state ELSE updates[1]

\* React's processing of the useState queue at render: the updates are plain
\* values, so the state after the render is the last one enqueued.
Reduce(state, updates) ==
    IF updates = <<>> THEN state ELSE updates[Len(updates)]

\* Variant: the context value carries the language of the latest setLang call
\* while the markup is rendered from the state.
ContextValue_ReadsPending(p) ==
    [lang    |-> IF queue[p] = <<>> THEN lang[p] ELSE queue[p][Len(queue[p])],
     setLang |-> ProviderSetLangFn(p, captured[p])]

\* useMemo(() => ({ lang, setLang }), [lang, setLang])
ContextValue(p) ==
    [lang |-> lang[p], setLang |-> ProviderSetLangFn(p, captured[p])]

RECURSIVE Nearest_Outermost(_)
\* Variant: the lookup keeps going up and returns the outermost provider.
Nearest_Outermost(pos) ==
    IF pos = 0 THEN 0
    ELSE IF Nearest_Outermost(Parent(pos)) # 0 THEN Nearest_Outermost(Parent(pos))
    ELSE IF mounted[pos] THEN pos
    ELSE 0

RECURSIVE Nearest(_)
\* The provider whose <LanguageContext.Provider> is the nearest one above
\* position pos, 0 when there is none.
Nearest(pos) ==
    IF pos = 0 THEN 0
    ELSE IF mounted[pos] THEN pos
    ELSE Nearest(Parent(pos))

\* useContext(LanguageContext) for a reader at position pos: the value of the
\* nearest provider above it, or the context's default.
useContext(pos) ==
    IF Nearest(pos) = 0 THEN LanguageContext
    ELSE <<ContextValue(Nearest(pos))>>

\* What the provider renders: <div lang={lang}> and the role="status" region
\* with LANGUAGE_NAMES[lang] (undefined renders as no text).
Markup(p) ==
    [lang   |-> lang[p],
     role   |-> "status",
     live   |-> "polite",
     status |-> IF lang[p] \in DOMAIN LANGUAGE_NAMES
                THEN LANGUAGE_NAMES[lang[p]] ELSE ""]

----------------------------------------------------------------------------
(* useLanguage *)

MissingProviderMessage ==
    << "useLanguage", "must", "be", "used", "within", "a", "LanguageProvider",
       "Wrap", "your", "app", "with", "<LanguageProvider>", "to", "enable",
       "multilingual", "typography",
       "Example", "import", "LanguageProvider", "from", "@your-org/design-system",
       "<LanguageProvider defaultLang=en>", "<YourApp />", "</LanguageProvider>",
       "See", "documentation",
       "https://github.com/your-org/design-system#internationalization" >>

MissingProviderError == [name |-> "Error", message |-> MissingProviderMessage]

\* Variant: the NODE_ENV test is inverted (=== instead of !==).
useLanguage_InvertedEnv(context, nodeEnv) ==
    IF context = <<>> THEN
        IF nodeEnv = "production" THEN
            [status |-> "threw", value |-> <<>>, error |-> MissingProviderError]
        ELSE
            [status |-> "returned",
             value  |-> <<[lang |-> "en", setLang |-> FallbackSetLangFn]>>,
             error  |-> NoError]
    ELSE
        [status |-> "returned", value |-> context, error |-> NoError]

\* Variant: the hook throws outside a provider in every build.
useLanguage_AlwaysThrows(context, nodeEnv) ==
    IF context = <<>> THEN
        [status |-> "threw", value |-> <<>>, error |-> MissingProviderError]
    ELSE
        [status |-> "returned", value |-> context, error |-> NoError]

\* Variant: a production build returns the fallback without looking at the
\* context.
useLanguage_ProdIgnoresContext(context, nodeEnv) ==
    IF nodeEnv = "production" THEN
        [status |-> "returned",
         value  |-> <<[lang |-> "en", setLang |-> FallbackSetLangFn]>>,
         error  |-> NoError]
    ELSE IF context = <<>> THEN
        [status |-> "threw", value |-> <<>>, error |-> MissingProviderError]
    ELSE
        [status |-> "returned", value |-> context, error |-> NoError]

\* The hook's body, given what useContext returned and NODE_ENV.
useLanguage(context, nodeEnv) ==
    IF context = <<>> THEN
        IF nodeEnv # "production" THEN
            [status |-> "threw", value |-> <<>>, error |-> MissingProviderError]
        ELSE
            [status |-> "returned",
             value  |-> <<[lang |-> "en", setLang |-> FallbackSetLangFn]>>,
             error  |-> NoError]
    ELSE
        [status |-> "returned", value |-> context, error |-> NoError]

----------------------------------------------------------------------------
(* Operations *)

Outcome(op, pos, arg, status, value, error) ==
    [op |-> op, pos |-> pos, arg |-> arg, status |-> status,
     value |-> value, error |-> error]

Init ==
    /\ env \in {"development", "production"}
    /\ mounted = [p \in Providers |-> FALSE]
    /\ lang = [p \in Providers |-> Undefined]
    /\ queue = [p \in Providers |-> <<>>]
    /\ captured = [p \in Providers |-> Undefined]
    /\ made = [p \in Providers |-> 0]
    /\ calls = <<>>
    /\ warnings = 0
    /\ held = <<>>
    /\ outcome = Outcome("none", 0, Undefined, "returned", <<>>, NoError)

\* Variant: the state starts at 'en' and an effect run after the first render
\* sets it to defaultLang.
Mount_LangSetByEffect(p, defaultLang, onChange) ==
    /\ ~mounted[p]
    /\ mounted' = [mounted EXCEPT ![p] = TRUE]
    /\ lang' = [lang EXCEPT ![p] = "en"]
    /\ queue' = [queue EXCEPT ![p] =
                    IF defaultLang \in {Undefined, "en"} THEN <<>>
                    ELSE <<defaultLang>>]
    /\ captured' = [captured EXCEPT ![p] = onChange]
    /\ outcome' = Outcome("mount", p, defaultLang, "returned", <<>>, NoError)
    /\ UNCHANGED <<held, env, made, calls, warnings>>

\* Variant: the selection is kept outside the component and a provider
\* mounted later in the slot resumes from the last one notified.
Mount_ResumesSelection(p, defaultLang, onChange) ==
    LET mine == SelectSeq(calls, LAMBDA e : e.provider = p) IN
    /\ ~mounted[p]
    /\ mounted' = [mounted EXCEPT ![p] = TRUE]
    /\ lang' = [lang EXCEPT ![p] = IF mine = <<>> THEN InitialLang(defaultLang)
                                   ELSE mine[Len(mine)].arg]
    /\ queue' = [queue EXCEPT ![p] = <<>>]
    /\ captured' = [captured EXCEPT ![p] = onChange]
    /\ outcome' = Outcome("mount", p, defaultLang, "returned", <<>>, NoError)
    /\ UNCHANGED <<held, env, made, calls, warnings>>

\* Variant: the provider reports its initial language through onChange when
\* it mounts.
Mount_NotifiesInitial(p, defaultLang, onChange) ==
    /\ ~mounted[p]
    /\ mounted' = [mounted EXCEPT ![p] = TRUE]
    /\ lang' = [lang EXCEPT ![p] = InitialLang(defaultLang)]
    /\ queue' = [queue EXCEPT ![p] = <<>>]
    /\ captured' = [captured EXCEPT ![p] = onChange]
    /\ calls' = IF onChange = Undefined THEN calls
                ELSE Append(calls, [provider |-> p, callback |-> onChange,
                                    arg |-> InitialLang(defaultLang)])
    /\ outcome' = Outcome("mount", p, defaultLang, "returned", <<>>, NoError)
    /\ UNCHANGED <<held, env, made, warnings>>

\* First render of <LanguageProvider defaultLang onChange>
Mount(p, defaultLang, onChange) ==
    /\ ~mounted[p]
    /\ mounted' = [mounted EXCEPT ![p] = TRUE]
    /\ lang' = [lang EXCEPT ![p] = InitialLang(defaultLang)]
    /\ queue' = [queue EXCEPT ![p] = <<>>]
    /\ captured' = [captured EXCEPT ![p] = onChange]
    /\ outcome' = Outcome("mount", p, defaultLang, "returned", <<>>, NoError)
    /\ UNCHANGED <<held, env, made, calls, warnings>>

\* The provider leaves the tree; React discards its hooks, and its consumers
\* leave with it, with the closure one of them may keep.
Unmount(p) ==
    /\ mounted[p]
    /\ mounted' = [mounted EXCEPT ![p] = FALSE]
    /\ lang' = [lang EXCEPT ![p] = Undefined]
    /\ queue' = [queue EXCEPT ![p] = <<>>]
    /\ captured' = [captured EXCEPT ![p] = Undefined]
    /\ held' = IF held # <<>> /\ held[1].fn.owner = p THEN <<>> ELSE held
    /\ outcome' = Outcome("unmount", p, Undefined, "returned", <<>>, NoError)
    /\ UNCHANGED <<env, made, calls, warnings>>

\* Variant: a later render brings the state back in line with the defaultLang
\* prop.
Render_SyncsToDefault(p, defaultLang, onChange) ==
    /\ mounted[p]
    /\ lang' = [lang EXCEPT ![p] = InitialLang(defaultLang)]
    /\ queue' = [queue EXCEPT ![p] = <<>>]
    /\ captured' = [captured EXCEPT ![p] = onChange]
    /\ outcome' = Outcome("render", p, Undefined, "returned", <<>>, NoError)
    /\ UNCHANGED <<held, env, mounted, made, calls, warnings>>

\* A later render of a mounted provider with the props its parent passes:
\* useState ignores defaultLang and yields the reduced queue, useCallback
\* keeps or replaces the closure according to [onChange].
Render(p, defaultLang, onChange) ==
    /\ mounted[p]
    /\ lang' = [lang EXCEPT ![p] = Reduce(lang[p], queue[p])]
    /\ queue' = [queue EXCEPT ![p] = <<>>]
    /\ captured' = [captured EXCEPT ![p] = onChange]
    /\ outcome' = Outcome("render", p, Undefined, "returned", <<>>, NoError)
    /\ UNCHANGED <<held, env, mounted, made, calls, warnings>>

\* Variant: the scheduled render drops the enqueued updates and keeps the
\* state.
Update_DiscardsQueue(p) ==
    /\ mounted[p]
    /\ queue[p] # <<>>
    /\ lang' = lang
    /\ queue' = [queue EXCEPT ![p] = <<>>]
    /\ outcome' = Outcome("render", p, Undefined, "returned", <<>>, NoError)
    /\ UNCHANGED <<held, env, mounted, captured, made, calls, warnings>>

\* The render React schedules after setLangState: same props as before.
Update(p) ==
    /\ mounted[p]
    /\ queue[p] # <<>>
    /\ lang' = [lang EXCEPT ![p] = Reduce(lang[p], queue[p])]
    /\ queue' = [queue EXCEPT ![p] = <<>>]
    /\ outcome' = Outcome("render", p, Undefined, "returned", <<>>, NoError)
    /\ UNCHANGED <<held, env, mounted, captured, made, calls, warnings>>

\* A component at position pos calls useLanguage() while rendering.
UseLanguage(pos) ==
    LET r == useLanguage(useContext(pos), env) IN
    /\ outcome' = Outcome("useLanguage", pos, Undefined, r.status, r.value, r.error)
    /\ UNCHANGED <<held, env, mounted, lang, queue, captured, made, calls, warnings>>

\* The number of setLang calls made so far: on the providers, and of the
\* fallback, each of whose calls is one warning
CallsMade == made[1] + made[2] + made[3] + warnings

\* Variant: onChange is called before setLangState, so a throwing onChange
\* leaves setLang before the state update is enqueued.
SetLangBody_CallbackFirst(fn, pos, newLang) ==
    /\ CallsMade < MaxCalls
    /\ made' = [made EXCEPT ![fn.owner] = @ + 1]
    /\ IF fn.onChange = Undefined
       THEN /\ calls' = calls
            /\ queue' = [queue EXCEPT ![fn.owner] = Append(@, newLang)]
            /\ outcome' = Outcome("setLang", pos, newLang, "returned", <<>>, NoError)
       ELSE /\ calls' = Append(calls, [provider |-> fn.owner,
                                       callback |-> fn.onChange,
                                       arg      |-> newLang])
            /\ IF Throws(fn.onChange)
               THEN /\ queue' = queue
                    /\ outcome' = Outcome("setLang", pos, newLang, "threw", <<>>, CallbackFailure)
               ELSE /\ queue' = [queue EXCEPT ![fn.owner] = Append(@, newLang)]
                    /\ outcome' = Outcome("setLang", pos, newLang, "returned", <<>>, NoError)
    /\ UNCHANGED <<held, env, mounted, lang, captured, warnings>>

\* Variant: setLang updates the state and never calls onChange.
SetLangBody_Silent(fn, pos, newLang) ==
    /\ CallsMade < MaxCalls
    /\ made' = [made EXCEPT ![fn.owner] = @ + 1]
    /\ queue' = [queue EXCEPT ![fn.owner] = Append(@, newLang)]
    /\ calls' = calls
    /\ outcome' = Outcome("setLang", pos, newLang, "returned", <<>>, NoError)
    /\ UNCHANGED <<held, env, mounted, lang, captured, warnings>>

\* Variant: onChange is called only when newLang differs from the language
\* the provider shows.
SetLangBody_SkipsSameValue(fn, pos, newLang) ==
    /\ CallsMade < MaxCalls
    /\ made' = [made EXCEPT ![fn.owner] = @ + 1]
    /\ queue' = [queue EXCEPT ![fn.owner] = Append(@, newLang)]
    /\ IF fn.onChange = Undefined \/ newLang = lang[fn.owner]
       THEN /\ calls' = calls
            /\ outcome' = Outcome("setLang", pos, newLang, "returned", <<>>, NoError)
       ELSE /\ calls' = Append(calls, [provider |-> fn.owner,
                                       callback |-> fn.onChange,
                                       arg      |-> newLang])
            /\ outcome' = IF Throws(fn.onChange)
                          THEN Outcome("setLang", pos, newLang, "threw", <<>>, CallbackFailure)
                          ELSE Outcome("setLang", pos, newLang, "returned", <<>>, NoError)
    /\ UNCHANGED <<held, env, mounted, lang, captured, warnings>>

\* Variant: a call made while an update is pending is dropped.
SetLangBody_DropsWhilePending(fn, pos, newLang) ==
    /\ CallsMade < MaxCalls
    /\ made' = [made EXCEPT ![fn.owner] = @ + 1]
    /\ IF queue[fn.owner] # <<>>
       THEN /\ queue' = queue
            /\ calls' = calls
            /\ outcome' = Outcome("setLang", pos, newLang, "returned", <<>>, NoError)
       ELSE /\ queue' = [queue EXCEPT ![fn.owner] = Append(@, newLang)]
            /\ IF fn.onChange = Undefined
               THEN /\ calls' = calls
                    /\ outcome' = Outcome("setLang", pos, newLang, "returned", <<>>, NoError)
               ELSE /\ calls' = Append(calls, [provider |-> fn.owner,
                                               callback |-> fn.onChange,
                                               arg      |-> newLang])
                    /\ outcome' = IF Throws(fn.onChange)
                                  THEN Outcome("setLang", pos, newLang, "threw", <<>>, CallbackFailure)
                                  ELSE Outcome("setLang", pos, newLang, "returned", <<>>, NoError)
    /\ UNCHANGED <<held, env, mounted, lang, captured, warnings>>

\* Variant: the providers keep the language in one store they all share.
SetLangBody_SharedStore(fn, pos, newLang) ==
    /\ CallsMade < MaxCalls
    /\ made' = [made EXCEPT ![fn.owner] = @ + 1]
    /\ queue' = [q \in Providers |->
                    IF mounted[q] THEN Append(queue[q], newLang) ELSE queue[q]]
    /\ IF fn.onChange = Undefined
       THEN /\ calls' = calls
            /\ outcome' = Outcome("setLang", pos, newLang, "returned", <<>>, NoError)
       ELSE /\ calls' = Append(calls, [provider |-> fn.owner,
                                       callback |-> fn.onChange,
                                       arg      |-> newLang])
            /\ outcome' = IF Throws(fn.onChange)
                          THEN Outcome("setLang", pos, newLang, "threw", <<>>, CallbackFailure)
                          ELSE Outcome("setLang", pos, newLang, "returned", <<>>, NoError)
    /\ UNCHANGED <<held, env, mounted, lang, captured, warnings>>

\* The body of the provider's setLang closure fn, called with newLang:
\*   setLangState(newLang); onChange?.(newLang)
\* There is no try/catch: what onChange throws leaves setLang.
SetLangBody(fn, pos, newLang) ==
    /\ CallsMade < MaxCalls
    /\ made' = [made EXCEPT ![fn.owner] = @ + 1]
    /\ queue' = [queue EXCEPT ![fn.owner] = Append(@, newLang)]
    /\ IF fn.onChange = Undefined
       THEN /\ calls' = calls
            /\ outcome' = Outcome("setLang", pos, newLang, "returned", <<>>, NoError)
       ELSE /\ calls' = Append(calls, [provider |-> fn.owner,
                                       callback |-> fn.onChange,
                                       arg      |-> newLang])
            /\ outcome' = IF Throws(fn.onChange)
                          THEN Outcome("setLang", pos, newLang, "threw", <<>>, CallbackFailure)
                          ELSE Outcome("setLang", pos, newLang, "returned", <<>>, NoError)
    /\ UNCHANGED <<held, env, mounted, lang, captured, warnings>>

\* A component at position pos, inside a provider, calls the setLang it got
\* from useLanguage().
SetLang(pos, newLang) ==
    LET r == useLanguage(useContext(pos), env) IN
    /\ r.status = "returned"
    /\ r.value[1].setLang.kind = "provider"
    /\ SetLangBody(r.value[1].setLang, pos, newLang)

\* Variant: the fallback closure is an empty function.
FallbackBody_Silent(pos, newLang) ==
    /\ CallsMade < MaxCalls
    /\ warnings' = warnings
    /\ outcome' = Outcome("fallbackSetLang", pos, newLang, "returned", <<>>, NoError)
    /\ UNCHANGED <<held, env, mounted, lang, queue, captured, made, calls>>

\* Variant: the fallback warns and passes the call on to the application's
\* outer provider when there is one.
FallbackBody_ForwardsToRoot(pos, newLang) ==
    /\ CallsMade < MaxCalls
    /\ warnings' = warnings + 1
    /\ queue' = IF mounted[1] THEN [queue EXCEPT ![1] = Append(@, newLang)]
                ELSE queue
    /\ calls' = IF mounted[1] /\ captured[1] # Undefined
                THEN Append(calls, [provider |-> 1, callback |-> captured[1],
                                    arg |-> newLang])
                ELSE calls
    /\ outcome' = Outcome("fallbackSetLang", pos, newLang, "returned", <<>>, NoError)
    /\ UNCHANGED <<held, env, mounted, lang, captured, made>>

\* The body of the fallback closure: console.warn(...) and nothing else.
FallbackBody(pos, newLang) ==
    /\ CallsMade < MaxCalls
    /\ warnings' = warnings + 1
    /\ outcome' = Outcome("fallbackSetLang", pos, newLang, "returned", <<>>, NoError)
    /\ UNCHANGED <<held, env, mounted, lang, queue, captured, made, calls>>

\* A component with no provider above it, in a production build, calls the
\* setLang it got from useLanguage().
FallbackSetLang(pos, newLang) ==
    LET r == useLanguage(useContext(pos), env) IN
    /\ r.status = "returned"
    /\ r.value[1].setLang.kind = "fallback"
    /\ FallbackBody(pos, newLang)

\* A component at position pos, inside a provider, keeps the setLang of this
\* render for later (an effect with no dependencies, a timer, a handler it
\* registered once).
Retain(pos) ==
    LET r == useLanguage(useContext(pos), env) IN
    /\ r.status = "returned"
    /\ r.value[1].setLang.kind = "provider"
    /\ held' = <<[fn |-> r.value[1].setLang, pos |-> pos]>>
    /\ outcome' = Outcome("retain", pos, Undefined, "returned", <<>>, NoError)
    /\ UNCHANGED <<env, mounted, lang, queue, captured, made, calls, warnings>>

\* The component calls the closure it kept: the closure's own setLangState
\* and the onChange it was created with.
CallHeld(newLang) ==
    /\ held # <<>>
    /\ SetLangBody(held[1].fn, held[1].pos, newLang)

\* The application of Spec renders one LanguageProvider, in slot 1.
Hosted == {1}

Next ==
    \/ \E p \in Hosted, d \in Language \cup {Undefined}, cb \in OnChangeProps :
            Mount(p, d, cb)
    \/ \E p \in Hosted : Unmount(p)
    \/ \E p \in Hosted, d \in Language \cup {Undefined}, cb \in OnChangeProps :
            Render(p, d, cb)
    \/ \E p \in Hosted : Update(p)
    \/ \E pos \in Positions : UseLanguage(pos)
    \/ \E pos \in Positions, v \in RuntimeValues : SetLang(pos, v)
    \/ \E pos \in Positions, v \in RuntimeValues : FallbackSetLang(pos, v)

Spec == Init /\ [][Next]_vars

\* An application with three LanguageProviders: one nested in another and one
\* beside them.  Hosts pass a defaultLang and an onChange that returns;
\* consumers pass listed codes.
TreeHosted == {1, 2, 3}
TreeDefaults == {"en", "ja"}
TreeOnChange == {"notify"}
TreeCodes == {"en", "ja"}

NextTree ==
    \/ \E p \in TreeHosted, d \in TreeDefaults, cb \in TreeOnChange :
            Mount(p, d, cb)
    \/ \E p \in TreeHosted : Unmount(p)
    \/ \E p \in TreeHosted : Update(p)
    \/ \E pos \in Positions : UseLanguage(pos)
    \/ \E pos \in Positions, v \in TreeCodes : SetLang(pos, v)
    \/ \E pos \in Positions, v \in TreeCodes : FallbackSetLang(pos, v)

SpecTree == Init /\ [][NextTree]_vars

\* An application whose host re-renders its one LanguageProvider with props
\* that change, and whose consumers read, call setLang and keep it for later.
PropsHosted == {1}
PropsDefaults == {"en", "ja"}
PropsCodes == {"en", "ja"}
PropsPositions == {0, 1}

NextProps ==
    \/ \E p \in PropsHosted, d \in PropsDefaults, cb \in OnChangeProps :
            Mount(p, d, cb)
    \/ \E p \in PropsHosted : Unmount(p)
    \/ \E p \in PropsHosted, d \in PropsDefaults, cb \in OnChangeProps :
            Render(p, d, cb)
    \/ \E p \in PropsHosted : Update(p)
    \/ \E pos \in PropsPositions : UseLanguage(pos)
    \/ \E pos \in PropsPositions, v \in PropsCodes : SetLang(pos, v)
    \/ \E pos \in PropsPositions : Retain(pos)
    \/ \E v \in PropsCodes : CallHeld(v)

SpecProps == Init /\ [][NextProps]_vars

\* An application with a LanguageProvider and one nested in it, under React's
\* scheduling: the render that setLangState schedules for a mounted provider
\* is eventually performed.
LiveHosted == {1, 2}
LiveDefaults == {"en"}
LiveOnChange == {"notify"}
LiveCodes == {"en", "ja"}

NextLive ==
    \/ \E p \in LiveHosted, d \in LiveDefaults, cb \in LiveOnChange :
            Mount(p, d, cb)
    \/ \E p \in LiveHosted : Unmount(p)
    \/ \E p \in LiveHosted : Update(p)
    \/ \E pos \in Positions : UseLanguage(pos)
    \/ \E pos \in Positions, v \in LiveCodes : SetLang(pos, v)

SpecLive ==
    /\ Init
    /\ [][NextLive]_vars
    /\ \A p \in LiveHosted : WF_vars(Update(p))

----------------------------------------------------------------------------
(* Heading *)

HeadingLevels == {"h1", "h2", "h3", "h4", "h5", "h6"}
HeadingVariants == {"default", "muted", "accent"}

LevelClass ==
    [ l \in HeadingLevels |->
        CASE l = "h1" -> "text-4xl font-bold leading-tight"
          [] l = "h2" -> "text-3xl font-bold leading-tight"
          [] l = "h3" -> "text-2xl font-semibold leading-normal"
          [] l = "h4" -> "text-xl font-semibold leading-normal"
          [] l = "h5" -> "text-lg font-medium leading-normal"
          [] l = "h6" -> "text-base font-medium leading-normal" ]

VariantClass ==
    [ v \in HeadingVariants |->
        CASE v = "default" -> "text-foreground"
          [] v = "muted"   -> "text-muted-foreground"
          [] v = "accent"  -> "text-accent-foreground" ]

\* JavaScript's a || b on values that are undefined or non-empty strings
OrElse(a, b) == IF a # Undefined THEN a ELSE b

\* cva(...): the base classes, then the class of each variant key, an
\* undefined key taking its defaultVariants entry.
headingVariants(level, variant) ==
    << "font-sans tracking-tight",
       LevelClass[OrElse(level, "h2")],
       VariantClass[OrElse(variant, "default")] >>

\* Variant: the tag is taken from level before as.
Heading_TagFromLevel(as, level, variant) ==
    [tag       |-> OrElse(level, OrElse(as, "h2")),
     className |-> headingVariants(OrElse(level, as), variant)]

\* The element Heading renders for props { as, level, variant }
Heading(as, level, variant) ==
    [tag       |-> OrElse(as, OrElse(level, "h2")),
     className |-> headingVariants(OrElse(level, as), variant)]

\* Variant: Heading calls useLanguage() and adds the language to its classes.
RenderHeading_ReadsLanguage(pos, as, level, variant) ==
    LET r  == useLanguage(useContext(pos), env)
        el == Heading(as, level, variant)
    IN
    /\ outcome' =
          IF r.status = "threw"
          THEN Outcome("Heading", pos, Undefined, "threw", <<>>, r.error)
          ELSE Outcome("Heading", pos, Undefined, "returned",
                       <<[as |-> as, level |-> level, variant |-> variant,
                          element |-> [tag |-> el.tag,
                                       className |-> Append(el.className,
                                                            r.value[1].lang)]]>>,
                       NoError)
    /\ UNCHANGED <<held, env, mounted, lang, queue, captured, made, calls, warnings>>

\* A <Heading as level variant> is rendered at position pos.
RenderHeading(pos, as, level, variant) ==
    /\ outcome' = Outcome("Heading", pos, Undefined, "returned",
                          <<[as |-> as, level |-> level, variant |-> variant,
                             element |-> Heading(as, level, variant)]>>,
                          NoError)
    /\ UNCHANGED <<held, env, mounted, lang, queue, captured, made, calls, warnings>>

NextHeading ==
    \E pos \in Positions,
       as \in HeadingLevels \cup {Undefined},
       level \in HeadingLevels \cup {Undefined},
       variant \in HeadingVariants \cup {Undefined} :
        RenderHeading(pos, as, level, variant)

SpecHeading == Init /\ [][NextHeading]_vars

----------------------------------------------------------------------------
(* Paragraph and Text *)

ParagraphSizes == {"sm", "base", "lg"}
ParagraphVariants == {"default", "muted", "lead"}

ParagraphSizeClass ==
    [ z \in ParagraphSizes |->
        CASE z = "sm"   -> "text-sm leading-relaxed"
          [] z = "base" -> "text-base leading-relaxed"
          [] z = "lg"   -> "text-lg leading-relaxed" ]

ParagraphVariantClass ==
    [ v \in ParagraphVariants |->
        CASE v = "default" -> ""
          [] v = "muted"   -> "text-muted-foreground"
          [] v = "lead"    -> "text-lg font-medium leading-normal" ]

\* cn(...): the class names that are not empty, in order
cn(classes) == SelectSeq(classes, LAMBDA c : c # "")

paragraphVariants(size, variant) ==
    << "font-sans text-foreground",
       ParagraphSizeClass[OrElse(size, "base")],
       ParagraphVariantClass[OrElse(variant, "default")] >>

\* The element Paragraph renders for props { size, variant }
Paragraph(size, variant) ==
    [tag |-> "p", className |-> cn(paragraphVariants(size, variant))]

\* A <Paragraph size variant> is rendered at position pos.
RenderParagraph(pos, size, variant) ==
    /\ outcome' = Outcome("Paragraph", pos, Undefined, "returned",
                          <<[size |-> size, variant |-> variant,
                             element |-> Paragraph(size, variant)]>>,
                          NoError)
    /\ UNCHANGED <<held, env, mounted, lang, queue, captured, made, calls, warnings>>

\* Text: its props, as its stories list them.  The element is described by
\* the props it was given; nothing else enters it.
TextSizes == {"xs", "sm", "base", "lg", "xl"}
TextWeights == {"normal", "medium", "semibold", "bold"}
TextVariants == {"default", "muted", "error", "success"}
TextTags == {"span", "p", "div", "label"}

Text(as, size, weight, variant) ==
    [as |-> as, size |-> size, weight |-> weight, variant |-> variant]

\* A <Text as size weight variant> is rendered at position pos.
RenderText(pos, as, size, weight, variant) ==
    /\ outcome' = Outcome("Text", pos, Undefined, "returned",
                          <<[as |-> as, size |-> size, weight |-> weight,
                             variant |-> variant,
                             element |-> Text(as, size, weight, variant)]>>,
                          NoError)
    /\ UNCHANGED <<held, env, mounted, lang, queue, captured, made, calls, warnings>>

\* A page that renders typography inside and outside a LanguageProvider whose
\* language changes.
TypoHosted == {1}
TypoPositions == {0, 1}
TypoDefaults == {"en", "ja"}
TypoOnChange == {"notify"}
TypoCodes == {"ja", "zh-tw"}
TypoLevels == {"h1", "h3", Undefined}
TypoVariants == {"muted", Undefined}
TypoSizes == {"lg", Undefined}
TypoWeights == {"bold", Undefined}
TypoTags == {"label", Undefined}

NextTypography ==
    \/ \E p \in TypoHosted, d \in TypoDefaults, cb \in TypoOnChange :
            Mount(p, d, cb)
    \/ \E p \in TypoHosted : Unmount(p)
    \/ \E p \in TypoHosted : Update(p)
    \/ \E pos \in TypoPositions, v \in TypoCodes : SetLang(pos, v)
    \/ \E pos \in TypoPositions, as \in TypoLevels, level \in TypoLevels,
          variant \in TypoVariants :
            RenderHeading(pos, as, level, variant)
    \/ \E pos \in TypoPositions, size \in TypoSizes, variant \in TypoVariants :
            RenderParagraph(pos, size, variant)
    \/ \E pos \in TypoPositions, as \in TypoTags, size \in TypoSizes,
          weight \in TypoWeights, variant \in TypoVariants :
            RenderText(pos, as, size, weight, variant)

SpecTypography == Init /\ [][NextTypography]_vars

----------------------------------------------------------------------------
(* Vocabulary of the properties *)

\* Every operation writes outcome, so a step whose next state has
\* outcome.op = o is a step of operation o, and outcome.pos, outcome.arg are
\* its arguments.
IsStep(o) == outcome'.op = o
StepOf(o, pos, arg) == IsStep(o) /\ outcome'.pos = pos /\ outcome'.arg = arg

\* The language a reader at position pos gets from useLanguage()
LangReadAt(pos) == useLanguage(useContext(pos), env).value[1].lang

\* The language provider p is due to show: the argument of the latest
\* setLangState call not yet rendered, else the state it shows
Pending(p) ==
    IF queue[p] = <<>> THEN lang[p] ELSE queue[p][Len(queue[p])]

HasPhrase(msg, phrase) ==
    \E i \in 1..(Len(msg) - Len(phrase) + 1) :
        SubSeq(msg, i, i + Len(phrase) - 1) = phrase

----------------------------------------------------------------------------
(* Properties *)

\* C1: a reader inside a provider mounted with defaultLang = c gets lang = c
\* as long as no setLang call has been made: the mount leaves every reader
\* under the provider with lang = c, and the language of a mounted provider
\* changes only at a render that applies an enqueued setLang update.
C1_DefaultLangIsRead ==
    [][ /\ \A p \in Providers, c \in Language :
            StepOf("mount", p, c)
                => \A pos \in Positions :
                      Nearest(pos)' = p => LangReadAt(pos)' = c
        /\ \A p \in Providers :
            (mounted[p] /\ mounted'[p] /\ queue[p] = <<>>) => lang'[p] = lang[p]
      ]_vars

\* A reader at the nested position has just read "ja" from a provider mounted
\* with it, no setLang call having been made.
C1_Witness ==
    /\ outcome.op = "useLanguage"
    /\ outcome.pos = 2
    /\ outcome.status = "returned"
    /\ outcome.value # <<>>
    /\ outcome.value[1].lang = "ja"
    /\ outcome.value[1].setLang.kind = "provider"
    /\ calls = <<>>
    /\ queue[1] = <<>>

\* C2: after setLang(c2) and the render of the update, readers under the
\* provider get lang = c2, whatever the language was and whatever calls came
\* before: a setLang(c2) call makes c2 the provider's pending state, and a
\* render with enqueued updates leaves every reader under the provider with
\* the pending state.
C2_SetLangThenRead ==
    [][ /\ \A at \in Positions, c2 \in Language, p \in Providers :
            (StepOf("setLang", at, c2) /\ Nearest(at) = p)
                => Pending(p)' = c2
        /\ \A p \in Providers :
            (StepOf("render", p, Undefined) /\ queue[p] # <<>>)
                => \A pos \in Positions :
                      Nearest(pos)' = p => LangReadAt(pos)' = Pending(p)
      ]_vars

\* A provider mounted with "en" has rendered after setLang("ja") followed by
\* setLang("zh-tw"), and a reader has then read "zh-tw".
C2_Witness ==
    /\ outcome.op = "useLanguage"
    /\ outcome.pos = 1
    /\ outcome.value # <<>>
    /\ outcome.value[1].lang = "zh-tw"
    /\ Len(calls) = 2
    /\ calls[1].arg = "ja"
    /\ calls[2].arg = "zh-tw"
    /\ queue[1] = <<>>

\* C3: the provider's setLang called with a value outside the registry fails
\* with a ValidationError, leaves the provider's state as it was and does not
\* invoke onChange.
C3_InvalidCodeRejected ==
    [][ (IsStep("setLang") /\ outcome'.arg \notin Language)
            => /\ outcome'.status = "threw"
               /\ outcome'.error.name = "ValidationError"
               /\ lang' = lang
               /\ queue' = queue
               /\ calls' = calls
      ]_vars

\* C4: in a development build, useLanguage() with no provider above the
\* caller throws, returns no value, and the message of the error names
\* LanguageProvider and says to wrap the app with it.
C4_DevThrowsWithoutProvider ==
    (/\ outcome.op = "useLanguage"
     /\ env # "production"
     /\ Nearest(outcome.pos) = 0)
        => /\ outcome.status = "threw"
           /\ outcome.value = <<>>
           /\ outcome.error.name = "Error"
           /\ HasPhrase(outcome.error.message,
                        <<"within", "a", "LanguageProvider">>)
           /\ HasPhrase(outcome.error.message,
                        <<"Wrap", "your", "app", "with", "<LanguageProvider>">>)

\* In development, a component at the nested position has called
\* useLanguage() with no provider mounted.
C4_Witness ==
    /\ outcome.op = "useLanguage"
    /\ env = "development"
    /\ outcome.pos = 2
    /\ ~mounted[1]
    /\ ~mounted[2]
    /\ outcome.status = "threw"

\* C5: in a production build, useLanguage() with no provider above the
\* caller returns lang = "en" with the fallback setLang, in every reachable
\* state, so also after any calls of the fallback; and a call of the fallback
\* setLang changes no provider's state.
C5_ProdFallbackIsEnglish ==
    [][ /\ \A at \in Positions :
            (/\ StepOf("useLanguage", at, Undefined)
             /\ env = "production"
             /\ Nearest(at) = 0)
                => /\ outcome'.status = "returned"
                   /\ outcome'.value # <<>>
                   /\ outcome'.value[1].lang = "en"
                   /\ outcome'.value[1].setLang.kind = "fallback"
        /\ \A at \in Positions :
            (IsStep("fallbackSetLang") /\ outcome'.pos = at)
                => /\ UNCHANGED <<mounted, lang, queue, captured>>
                   /\ LangReadAt(at)' = "en"
      ]_vars

\* In production, the fallback setLang has been called twice and
\* useLanguage() outside a provider has then returned "en".
C5_Witness ==
    /\ outcome.op = "useLanguage"
    /\ env = "production"
    /\ Nearest(outcome.pos) = 0
    /\ warnings = 2
    /\ outcome.status = "returned"
    /\ outcome.value # <<>>
    /\ outcome.value[1].lang = "en"

\* C6: every call of the fallback setLang returns normally and emits exactly
\* one console warning, whatever its argument.
C6_FallbackWarnsOnce ==
    [][ IsStep("fallbackSetLang")
            => /\ outcome'.status = "returned"
               /\ outcome'.error = NoError
               /\ warnings' = warnings + 1
      ]_vars

\* The fallback setLang has been called with an unlisted code, one earlier
\* call having been made.
C6_Witness ==
    /\ outcome.op = "fallbackSetLang"
    /\ outcome.arg \in UnlistedCodes
    /\ outcome.status = "returned"
    /\ warnings = 2

\* C7: a setLang call returns normally to its caller, also when the onChange
\* it invokes throws.
C7_CallbackErrorContained ==
    outcome.op = "setLang" => outcome.status = "returned"

\* C8: when onChange throws during setLang(c), c valid, the state update is
\* kept: c is the provider's pending state after the call, and the render of
\* the update puts the pending state in the lang attribute.
C8_ThrowKeepsUpdate ==
    [][ /\ \A at \in Positions, c \in Language, p \in Providers :
            (/\ StepOf("setLang", at, c)
             /\ outcome'.status = "threw"
             /\ Nearest(at) = p)
                => /\ queue'[p] = Append(queue[p], c)
                   /\ Pending(p)' = c
        /\ \A p \in Providers :
            StepOf("render", p, Undefined)
                => Markup(p)'.lang = Pending(p)
      ]_vars

\* setLang("ja") has thrown out of a provider showing "en", and the provider
\* has then rendered "ja".
C8_Witness ==
    /\ outcome.op = "render"
    /\ mounted[1]
    /\ lang[1] = "ja"
    /\ Markup(1).lang = "ja"
    /\ Len(calls) = 1
    /\ calls[1] = [provider |-> 1, callback |-> "faulty", arg |-> "ja"]

\* C9: a setLang(c) call on a provider given an onChange invokes that
\* onChange exactly once, with c; on a provider given none it invokes nothing
\* and still enqueues the state update.
C9_OnChangeOncePerCall ==
    [][ \A at \in Positions, c \in RuntimeValues, p \in Providers :
            (StepOf("setLang", at, c) /\ Nearest(at) = p)
                => /\ queue'[p] = Append(queue[p], c)
                   /\ IF captured[p] # Undefined
                      THEN calls' = Append(calls, [provider |-> p,
                                                   callback |-> captured[p],
                                                   arg      |-> c])
                      ELSE calls' = calls
      ]_vars

\* setLang("zh-tw") has just invoked the provider's onChange, and an earlier
\* call, made while the provider had no onChange, had invoked nothing.
C9_Witness ==
    /\ outcome.op = "setLang"
    /\ outcome.arg = "zh-tw"
    /\ made[1] = 2
    /\ queue[1] = <<"zh-tw">>
    /\ calls = <<[provider |-> 1, callback |-> "notify", arg |-> "zh-tw"]>>

\* C10: the language of a mounted provider, and with it the rendered lang
\* attribute, is always one of the registry's codes.
C10_LangInRegistry ==
    \A p \in Providers :
        mounted[p] => (lang[p] \in Language /\ Markup(p).lang \in Language)

\* C11: in every rendered state of a provider the lang attribute is the
\* provider's language and the text of the polite status region is the
\* registry's display name of that language.
C11_AttributeAndAnnouncementAgree ==
    \A p \in Providers :
        mounted[p] =>
            /\ Markup(p).lang = lang[p]
            /\ Markup(p).role = "status"
            /\ Markup(p).live = "polite"
            /\ \E i \in DOMAIN SUPPORTED_LANGUAGES :
                  /\ SUPPORTED_LANGUAGES[i].code = Markup(p).lang
                  /\ SUPPORTED_LANGUAGES[i].name = Markup(p).status

\* C14: a provider mounted without defaultLang starts with "en", the first
\* entry of the registry.
C14_DefaultIsEnglish ==
    [][ \A p \in Providers :
            StepOf("mount", p, Undefined)
                => /\ lang'[p] = "en"
                   /\ lang'[p] = SUPPORTED_LANGUAGES[1].code
                   /\ \A pos \in Positions :
                         Nearest(pos)' = p => LangReadAt(pos)' = "en"
      ]_vars

\* A provider has just been mounted without defaultLang and shows "en".
C14_Witness ==
    /\ outcome.op = "mount"
    /\ outcome.arg = Undefined
    /\ mounted[1]
    /\ lang[1] = "en"
    /\ Markup(1).lang = "en"

\* C15: setLang(c) called when c is already the provider's language, shown or
\* pending, returns without error and leaves the pending language c, as after
\* a single setLang(c).
C15_SetLangIdempotent ==
    [][ \A at \in Positions, c \in Language, p \in Providers :
            (/\ StepOf("setLang", at, c)
             /\ Nearest(at) = p
             /\ Pending(p) = c)
                => /\ outcome'.status = "returned"
                   /\ Pending(p)' = c
      ]_vars

\* The output of the first render of a provider given defaultLang d
FirstRender(d) ==
    LET l == IF d = Undefined THEN "en" ELSE d IN
    [lang |-> l, role |-> "status", live |-> "polite",
     status |-> LANGUAGE_NAMES[l]]

\* C16: what a provider renders is a function of its props alone: the first
\* render carries lang = defaultLang whatever the build and whatever happened
\* before, no update is left pending by the mount, and no step changes the
\* output of a mounted provider that has no pending update.
C16_FirstRenderFromPropsOnly ==
    [][ /\ \A p \in Providers, d \in Language \cup {Undefined} :
            StepOf("mount", p, d)
                => /\ Markup(p)' = FirstRender(d)
                   /\ queue'[p] = <<>>
        /\ \A p \in Providers :
            (mounted[p] /\ mounted'[p] /\ queue[p] = <<>>)
                => Markup(p)' = Markup(p)
      ]_vars

\* In a production build a provider has been mounted with "ja", after an
\* earlier provider in the same slot had its language changed twice; it has
\* rendered the same output as a first mount with "ja".
C16_Witness ==
    /\ outcome.op = "mount"
    /\ outcome.arg = "ja"
    /\ env = "production"
    /\ made[1] = 2
    /\ Markup(1) = [lang |-> "ja", role |-> "status", live |-> "polite",
                    status |-> "Japanese"]

\* C17: useLanguage() called under a provider returns, in either build, the
\* provider's context value: its current lang and its setLang.
C17_ReadsProviderValue ==
    \A p \in Providers :
        (outcome.op = "useLanguage" /\ Nearest(outcome.pos) = p)
            => /\ outcome.status = "returned"
               /\ outcome.error = NoError
               /\ outcome.value = <<[lang |-> lang[p],
                                     setLang |-> ProviderSetLangFn(p, captured[p])]>>

\* In a production build a reader under a provider showing "ja" after a
\* setLang call has read "ja" and the provider's setLang.
C17_Witness ==
    /\ outcome.op = "useLanguage"
    /\ env = "production"
    /\ outcome.pos = 2
    /\ mounted[1]
    /\ made[1] = 1
    /\ outcome.status = "returned"
    /\ outcome.value # <<>>
    /\ outcome.value[1].lang = "ja"
    /\ outcome.value[1].setLang = ProviderSetLangFn(1, "notify")

\* C19: setLang(c) with c equal to the language the provider shows, or to its
\* pending language, still invokes the provider's onChange with c.
C19_SameValueStillNotifies ==
    [][ \A at \in Positions, c \in RuntimeValues, p \in Providers :
            (/\ StepOf("setLang", at, c)
             /\ Nearest(at) = p
             /\ (lang[p] = c \/ Pending(p) = c)
             /\ captured[p] # Undefined)
                => calls' = Append(calls, [provider |-> p,
                                           callback |-> captured[p],
                                           arg      |-> c])
      ]_vars

\* setLang("ja") has been called on a provider showing "ja" and has invoked
\* its onChange.
C19_Witness ==
    /\ outcome.op = "setLang"
    /\ outcome.arg = "ja"
    /\ lang[1] = "ja"
    /\ queue[1] = <<"ja">>
    /\ calls = <<[provider |-> 1, callback |-> "notify", arg |-> "ja"]>>

\* The onChange invocations of provider p, in order
CallsOf(p) == SelectSeq(calls, LAMBDA e : e.provider = p)

\* The arguments of the last n onChange invocations of provider p
LastArgs(p, n) ==
    [i \in 1..n |-> CallsOf(p)[Len(CallsOf(p)) - n + i].arg]

\* The setLang calls made on p since its last render have each invoked its
\* onChange once, in call order.
NotifiedInOrder(p) ==
    (mounted[p] /\ captured[p] # Undefined)
        => /\ Len(CallsOf(p)) >= Len(queue[p])
           /\ LastArgs(p, Len(queue[p])) = queue[p]

\* C20: of several setLang calls made on a provider before it renders, the
\* last one wins: each call makes its argument the pending language, the
\* render shows the argument of the last call, and onChange has been invoked
\* once per call in call order.
C20_LastWriteWins ==
    [][ /\ \A at \in Positions, c \in RuntimeValues, p \in Providers :
            (StepOf("setLang", at, c) /\ Nearest(at) = p)
                => Pending(p)' = c
        /\ \A p \in Providers :
            (StepOf("render", p, Undefined) /\ queue[p] # <<>>)
                => lang'[p] = queue[p][Len(queue[p])]
        /\ \A p \in Providers : NotifiedInOrder(p)'
      ]_vars

\* Two consumers of one provider have called setLang("ja") and then
\* setLang("zh-tw") before any render, the second from the nested position.
C20_Witness ==
    /\ outcome.op = "setLang"
    /\ outcome.pos = 2
    /\ lang[1] = "en"
    /\ queue[1] = <<"ja", "zh-tw">>
    /\ Len(calls) = 2
    /\ calls[1].arg = "ja"
    /\ calls[2].arg = "zh-tw"

\* C18: Heading renders the tag given by as, else by level, else h2, and the
\* level style of level, else of as, else of h2; with both given the tag is
\* as and the style is that of level.
C18_HeadingTagAndStyle ==
    outcome.op = "Heading" =>
        LET props == outcome.value[1]
            el    == props.element
            tag   == IF props.as # Undefined THEN props.as
                     ELSE IF props.level # Undefined THEN props.level
                     ELSE "h2"
            style == IF props.level # Undefined THEN props.level
                     ELSE IF props.as # Undefined THEN props.as
                     ELSE "h2"
        IN /\ el.tag = tag
           /\ el.className[2] = LevelClass[style]
           /\ (props.as # Undefined /\ props.level # Undefined)
                => (el.tag = props.as /\ el.className[2] = LevelClass[props.level])

\* <Heading as="h1" level="h3"> has been rendered as an h1 in the h3 style.
C18_Witness ==
    /\ outcome.op = "Heading"
    /\ outcome.value[1].as = "h1"
    /\ outcome.value[1].level = "h3"
    /\ outcome.value[1].element.tag = "h1"
    /\ outcome.value[1].element.className[2] = "text-2xl font-semibold leading-normal"

\* Slot p encloses position pos: pos is the inside of p, or of the slot
\* nested in p.
Encloses(p, pos) == p = pos \/ (p = 1 /\ pos = 2)

\* The mounted providers around position pos
Around(pos) == {p \in Providers : mounted[p] /\ Encloses(p, pos)}

\* C12: a consumer with providers around it reads exactly the value of the
\* innermost of them: inside a provider nested in another it reads the inner
\* provider's language, between the two it reads the outer one's.
C12_InnermostShadows ==
    (outcome.op = "useLanguage" /\ Around(outcome.pos) # {})
        => \E p \in Around(outcome.pos) :
              /\ \A q \in Around(outcome.pos) : Encloses(q, p)
              /\ outcome.status = "returned"
              /\ outcome.value = <<[lang |-> lang[p],
                                    setLang |-> ProviderSetLangFn(p, captured[p])]>>

\* With an inner provider mounted with "en" inside an outer one mounted with
\* "ja", the consumer inside the inner one has read "en" while a consumer
\* between the two reads "ja".
C12_Witness ==
    /\ outcome.op = "useLanguage"
    /\ outcome.pos = 2
    /\ mounted[1] /\ mounted[2]
    /\ lang[1] = "ja" /\ lang[2] = "en"
    /\ made[1] = 0 /\ made[2] = 0
    /\ outcome.value # <<>>
    /\ outcome.value[1].lang = "en"
    /\ LangReadAt(1) = "ja"

\* C13: a setLang call on one provider enqueues its update on that provider
\* and leaves every other provider, nested or beside it, as it was: language,
\* pending updates, closure and onChange invocations.
C13_SetLangIsLocal ==
    [][ \A at \in Positions, c \in RuntimeValues, p \in Providers :
            (StepOf("setLang", at, c) /\ Nearest(at) = p)
                => /\ queue'[p] = Append(queue[p], c)
                   /\ \A q \in Providers \ {p} :
                         /\ mounted'[q] = mounted[q]
                         /\ lang'[q] = lang[q]
                         /\ queue'[q] = queue[q]
                         /\ captured'[q] = captured[q]
                         /\ made'[q] = made[q]
                         /\ CallsOf(q)' = CallsOf(q)
      ]_vars

\* With three providers mounted, one nested and one beside, setLang("ja") has
\* been called on the nested one only.
C13_Witness ==
    /\ outcome.op = "setLang"
    /\ outcome.pos = 2
    /\ mounted[1] /\ mounted[2] /\ mounted[3]
    /\ lang = <<"en", "en", "en">>
    /\ queue = << <<>>, <<"ja">>, <<>> >>
    /\ calls = <<[provider |-> 2, callback |-> "notify", arg |-> "ja"]>>

\* C21: setLang updates the internal state and only then invokes onChange, so
\* at the moment onChange(c) runs the provider's current language is c.
C21_OnChangeSeesNewLanguage ==
    [][ \A at \in Positions, c \in RuntimeValues, p \in Providers :
            (StepOf("setLang", at, c) /\ Nearest(at) = p
                /\ Len(calls') > Len(calls))
                => lang'[p] = c
      ]_vars

\* C21 as amended: setLang(c) first enqueues the update to c and then invokes
\* onChange(c); when onChange(c) runs (and also when it throws) c is the
\* provider's pending language, which the next render will show, while the
\* language the provider shows is still the one from before the call.
C21_UpdateEnqueuedBeforeOnChange ==
    [][ \A at \in Positions, c \in RuntimeValues, p \in Providers :
            (StepOf("setLang", at, c) /\ Nearest(at) = p)
                => /\ queue'[p] = Append(queue[p], c)
                   /\ Pending(p)' = c
                   /\ lang'[p] = lang[p]
                   /\ Len(calls') > Len(calls)
                        => /\ Len(calls') = Len(calls) + 1
                           /\ calls'[Len(calls')].provider = p
                           /\ calls'[Len(calls')].arg = c
      ]_vars

\* onChange("ja") has run on a provider that shows "en": "ja" is pending.
C21_Witness ==
    /\ outcome.op = "setLang"
    /\ outcome.arg = "ja"
    /\ outcome.status = "returned"
    /\ mounted[1]
    /\ lang[1] = "en"
    /\ queue[1] = <<"ja">>
    /\ calls = <<[provider |-> 1, callback |-> "notify", arg |-> "ja"]>>

\* The innermost mounted provider around position pos, 0 when there is none
Innermost(pos) ==
    IF Around(pos) = {} THEN 0
    ELSE CHOOSE p \in Around(pos) : \A q \in Around(pos) : Encloses(q, p)

\* C22: what a consumer under a provider has read is what every consumer
\* under the same provider reads in that render pass (same lang, same
\* setLang), and its lang is the lang attribute the provider rendered.
C22_ConsumersAgree ==
    (outcome.op = "useLanguage" /\ Innermost(outcome.pos) # 0)
        => /\ outcome.status = "returned"
           /\ outcome.value # <<>>
           /\ outcome.value[1].lang = Markup(Innermost(outcome.pos)).lang
           /\ \A other \in Positions :
                 Innermost(other) = Innermost(outcome.pos)
                    => useLanguage(useContext(other), env).value = outcome.value

\* After a language change to "ja" has been rendered, a consumer deeper in
\* provider 1's subtree has read what the consumer right under it reads.
C22_Witness ==
    /\ outcome.op = "useLanguage"
    /\ outcome.pos = 2
    /\ mounted[1] /\ ~mounted[2]
    /\ lang[1] = "ja"
    /\ queue[1] = <<>>
    /\ calls = <<[provider |-> 1, callback |-> "notify", arg |-> "ja"]>>
    /\ outcome.value # <<>>
    /\ outcome.value[1].lang = "ja"
    /\ LangReadAt(1) = "ja"
    /\ Markup(1).lang = "ja"

\* C23: once setLang(c) has been called on a mounted provider, every consumer
\* under that provider eventually reads lang = c, unless a later setLang call
\* on the provider or its unmounting intervenes.
C23_UpdateIsObserved ==
    \A p \in Providers, c \in Language, n \in 0..MaxCalls :
        (mounted[p] /\ made[p] = n /\ queue[p] # <<>> /\ Pending(p) = c)
            ~> \/ ~mounted[p]
               \/ made[p] # n
               \/ /\ queue[p] = <<>>
                  /\ \A pos \in Positions :
                        Innermost(pos) = p => LangReadAt(pos) = c

\* A consumer under a provider mounted with "en" has read "ja" after one
\* setLang("ja") and the render it scheduled.
C23_Witness ==
    /\ outcome.op = "useLanguage"
    /\ outcome.pos = 2
    /\ mounted[1] /\ ~mounted[2]
    /\ made[1] = 1
    /\ calls = <<[provider |-> 1, callback |-> "notify", arg |-> "ja"]>>
    /\ queue[1] = <<>>
    /\ outcome.value # <<>>
    /\ outcome.value[1].lang = "ja"

\* C24: while a provider stays mounted, the language it is due to show
\* changes only in a setLang call on it, to the argument of the call, and the
\* language it shows changes only to the one it is due to show: a render with
\* other props (defaultLang, onChange) and nothing enqueued changes neither.
C24_OnlySetLangChangesLang ==
    [][ \A p \in Providers :
            (mounted[p] /\ mounted'[p])
                => /\ Pending(p)' # Pending(p)
                        => /\ IsStep("setLang")
                           /\ Nearest(outcome'.pos) = p
                           /\ Pending(p)' = outcome'.arg
                   /\ lang'[p] # lang[p]
                        => /\ IsStep("render")
                           /\ queue[p] # <<>>
                           /\ lang'[p] = Pending(p)
      ]_vars

\* The provider, brought to "ja" by setLang while its onChange was "notify",
\* has been rendered again with no onChange (and either defaultLang) and
\* still shows "ja".
C24_Witness ==
    /\ outcome.op = "render"
    /\ mounted[1]
    /\ lang[1] = "ja"
    /\ queue[1] = <<>>
    /\ captured[1] = Undefined
    /\ calls = <<[provider |-> 1, callback |-> "notify", arg |-> "ja"]>>

\* C25: a context read yields undefined exactly when no mounted provider is
\* around the reader; a read under a provider yields the provider's value
\* object, so useLanguage takes its no-provider branch (the throw or the
\* fallback) exactly when there is no provider.
C25_UndefinedIffNoProvider ==
    /\ \A pos \in Positions :
          /\ (useContext(pos) = <<>>) <=> (Around(pos) = {})
          /\ Around(pos) # {}
                => /\ Len(useContext(pos)) = 1
                   /\ useContext(pos)[1].setLang.kind = "provider"
    /\ outcome.op = "useLanguage"
          => ( (Around(outcome.pos) = {})
                 <=> \/ outcome.status = "threw"
                     \/ /\ outcome.value # <<>>
                        /\ outcome.value[1].setLang.kind = "fallback" )

\* In production, a consumer outside every provider has read the fallback
\* "en" while a provider showing "en" is mounted: the two reads differ in
\* their setLang.
C25_Witness ==
    /\ env = "production"
    /\ outcome.op = "useLanguage"
    /\ outcome.pos = 0
    /\ outcome.value # <<>>
    /\ outcome.value[1].lang = "en"
    /\ outcome.value[1].setLang.kind = "fallback"
    /\ mounted[1]
    /\ lang[1] = "en"
    /\ useContext(1) # <<>>
    /\ useContext(1)[1].lang = "en"
    /\ useContext(1)[1].setLang.kind = "provider"

\* C26: the language state ends with its provider.  Unmounting discards the
\* state and the pending updates, and a provider mounted afterwards with
\* defaultLang = d starts at d with nothing pending, whatever was selected
\* before: every reader under it reads d.
C26_StateEndsWithProvider ==
    [][ \A p \in Providers :
            /\ ~mounted'[p] => (lang'[p] = Undefined /\ queue'[p] = <<>>)
            /\ \A d \in Language :
                  StepOf("mount", p, d)
                      => /\ lang'[p] = d
                         /\ queue'[p] = <<>>
                         /\ \A pos \in Positions :
                               Innermost(pos)' = p => LangReadAt(pos)' = d
      ]_vars

\* A provider has been mounted with "en" in the slot where setLang("ja") was
\* called on an earlier provider: it shows "en".
C26_Witness ==
    /\ outcome.op = "mount"
    /\ outcome.pos = 1
    /\ outcome.arg = "en"
    /\ made[1] = 1
    /\ calls = <<[provider |-> 1, callback |-> "notify", arg |-> "ja"]>>
    /\ mounted[1]
    /\ lang[1] = "en"
    /\ queue[1] = <<>>

C28_OnChangeOnlyFromSetLang ==
    [][ /\ \A p \in Providers :
            /\ CallsOf(p)' # CallsOf(p)
                  => /\ IsStep("setLang")
                     /\ Nearest(outcome'.pos) = p
                     /\ Len(CallsOf(p)') = Len(CallsOf(p)) + 1
            /\ Len(CallsOf(p)') = made'[p]
        /\ (IsStep("mount") \/ IsStep("render") \/ IsStep("unmount")
              \/ IsStep("useLanguage"))
              => calls' = calls
      ]_vars

\* Two providers have been mounted, one setLang call was made on each and
\* rendered on the first, and a consumer has read: two invocations in all.
C28_Witness ==
    /\ outcome.op = "useLanguage"
    /\ mounted[1] /\ mounted[2]
    /\ made = <<1, 1, 0>>
    /\ lang[1] = "ja"
    /\ queue[1] = <<>>
    /\ calls = << [provider |-> 1, callback |-> "notify", arg |-> "ja"],
                  [provider |-> 2, callback |-> "notify", arg |-> "en"] >>

\* C29: a call of the production fallback setLang, made outside every
\* provider, leaves every provider as it is (language shown, pending
\* updates, closure, rendered output) and invokes no onChange.
C29_FallbackTouchesNoProvider ==
    [][ IsStep("fallbackSetLang")
            => /\ Around(outcome'.pos) = {}
               /\ mounted' = mounted
               /\ lang' = lang
               /\ queue' = queue
               /\ captured' = captured
               /\ made' = made
               /\ calls' = calls
               /\ \A p \in Providers : mounted[p] => Markup(p)' = Markup(p)
      ]_vars

\* The fallback setLang("ja") has been called outside the providers while
\* provider 1, with an onChange, shows "en": it still does, and nothing was
\* notified.
C29_Witness ==
    /\ env = "production"
    /\ outcome.op = "fallbackSetLang"
    /\ outcome.pos = 0
    /\ outcome.arg = "ja"
    /\ warnings = 1
    /\ mounted[1]
    /\ captured[1] = "notify"
    /\ lang[1] = "en"
    /\ queue[1] = <<>>
    /\ calls = <<>>

\* C30: every setLang call on a provider invokes the onChange of the
\* provider's latest render, and no other, also when the call is made through
\* a setLang kept from before the prop changed; and every call enqueues its
\* update on the provider.
C30_LatestOnChangeIsInvoked ==
    [][ \A at \in Positions, c \in RuntimeValues, p \in Providers :
            (StepOf("setLang", at, c) /\ Nearest(at) = p)
                => /\ queue'[p] = Append(queue[p], c)
                   /\ calls' = IF captured[p] = Undefined THEN calls
                               ELSE Append(calls, [provider |-> p,
                                                   callback |-> captured[p],
                                                   arg      |-> c])
      ]_vars

====
